---- MODULE Spec2Model ----
(***************************************************************************)
(* Model of rusty-build-light (src/src/main.rs): main spawns three worker  *)
(* threads (Jenkins, Unity Cloud, Team City), each running its poll loop   *)
(* inside run_and_recover, which catches panics of the loop, counts them   *)
(* in a shared Mutex<u32> and forces a global stop through the shared      *)
(* AtomicBool once the count exceeds allowed_total_failures.               *)
(***************************************************************************)
EXTENDS Integers, Sequences, FiniteSets, TLC

\* ------------------------------------------------------------------ bounds

\* Largest value of the configured allowed_failures explored.
MaxAllowedFailures == 1

\* Largest number of enabled Jenkins jobs in one /api/json answer.
MaxJobs == 2

\* Largest number of enabled Jenkins jobs when run_one_jenkins is looked at
\* on its own.
MaxRecords == 3

\* ------------------------------------------------------------------ names

Jenkins == "Jenkins"
UnityCloud == "Unity Cloud"
TeamCity == "Team City"

\* The thread names main passes to run_and_recover.
Workers == {Jenkins, UnityCloud, TeamCity}

NoHolder == "nobody"

\* RgbLedLight outputs used by main.rs: colour and mode.
LedNone == "none"
LedOff == "off"
GlowPurple == "glow purple"
GlowBlue == "glow blue"
GlowTeal == "glow teal"
GlowYellow == "glow yellow"
GlowWhite == "glow white"
BlinkRed == "blink red"
SolidGreen == "solid green"

VARIABLES
    is_running_flag,         \* Arc<AtomicBool>: TRUE while nobody asked to stop
    failure_count,           \* Arc<Mutex<u32>>: the value behind the mutex
    lock_holder,             \* the thread holding the mutex, or NoHolder
    counter_read,            \* per thread: value loaded by `*counter += 1`
    allowed_total_failures,  \* config_values.allowed_failures
    pc,                      \* per worker thread: position in run_and_recover / body
    main_pc,                 \* position of main
    led,                     \* per worker: what its RGB LED shows
    body_runs,               \* history: times catch_unwind(func) was entered
    panics,                  \* history: abnormal terminations of func seen by run_and_recover
    last_read,               \* history: last load of the flag since the body's last poll
    ctrlc_received,          \* history: the Ctrl-C handler has run
    sleep_duration,          \* start_unity_thread: the interval carried between polls (ms)
    last_poll                \* what the last run_one_* call was given and what it did

\* The variables of one run_one_* call looked at on its own.
poll_vars == <<sleep_duration, last_poll>>

vars == <<is_running_flag, failure_count, lock_holder, counter_read,
          allowed_total_failures, pc, main_pc, led, body_runs, panics,
          last_read, ctrlc_received, sleep_duration, last_poll>>

\* ------------------------------------------------------------------ helpers

\* iter().filter(|x| x is one of S).count()
CountIn(v, S) == Cardinality({i \in DOMAIN v : v[i] \in S})

\* iter().filter(|x| x is none of S).count()
CountNotIn(v, S) == Cardinality({i \in DOMAIN v : v[i] \notin S})

\* All vectors over S with at most n elements.
SeqsUpTo(S, n) == UNION {[1..k -> S] : k \in 0..n}

\* ------------------------------------------------------------------ Jenkins

\* What one job's lastBuild request can come back as: a transport / status /
\* parse failure, a build in progress, a finished build with its result, or a
\* finished build whose result field is absent.
JobHttpErr == "http error"
JobBuilding == "building"
JobNoResult == "no result"
JenkinsFinished == {"Success", "Failure", "Unstable", "Other"}
JobResponses == {JobHttpErr, JobBuilding, JobNoResult} \cup JenkinsFinished

NotRetrieved == "Err"

\* The closure mapped over the enabled jobs.
job_status(job_response) ==
    IF job_response = JobHttpErr THEN NotRetrieved
    ELSE IF job_response = JobBuilding THEN "Building"
    ELSE job_response

\* build_result.unwrap() panics on a finished build without a result.
get_jenkins_status_panics(jobs) ==
    \E i \in DOMAIN jobs : jobs[i] = JobNoResult

get_jenkins_status(jobs) == [i \in DOMAIN jobs |-> job_status(jobs[i])]

\* partition(|x| x.is_ok()): the Ok half, unwrapped, and the size of the rest.
IsOk(x) == x # NotRetrieved
retrieved(results) == SelectSeq(results, IsOk)
not_retrieved_count(results) == Len(results) - Len(retrieved(results))

\* Mutation of build_failures: an unstable build is not a failure.
BuildFailuresWithoutUnstable(results) == CountIn(retrieved(results), {"Failure"})

build_failures(results) == CountIn(retrieved(results), {"Failure", "Unstable"})
build_successes(results) == CountIn(retrieved(results), {"Success"})
\* Mutation of indeterminate_count: the jobs not retrieved are left out.
IndeterminateWithoutNotRetrieved(results) ==
    CountNotIn(retrieved(results), {"Failure", "Unstable", "Success"})

indeterminate_count(results) ==
    CountNotIn(retrieved(results), {"Failure", "Unstable", "Success"})
        + not_retrieved_count(results)

\* Mutation of jenkins_led_for: as many successes as indeterminates is green.
JenkinsLedGreenOnTie(results) ==
    IF build_successes(results) <= 0
    THEN IF indeterminate_count(results) > build_failures(results)
            \/ build_failures(results) = 0
         THEN GlowBlue
         ELSE BlinkRed
    ELSE IF build_failures(results) = 0
         THEN IF build_successes(results) >= indeterminate_count(results)
              THEN SolidGreen
              ELSE GlowTeal
         ELSE IF build_successes(results) > build_failures(results)
              THEN GlowYellow
              ELSE BlinkRed

\* Mutation of jenkins_led_for: as many successes as failures is yellow.
JenkinsLedYellowOnTie(results) ==
    IF build_successes(results) <= 0
    THEN IF indeterminate_count(results) > build_failures(results)
            \/ build_failures(results) = 0
         THEN GlowBlue
         ELSE BlinkRed
    ELSE IF build_failures(results) = 0
         THEN IF build_successes(results) > indeterminate_count(results)
              THEN SolidGreen
              ELSE GlowTeal
         ELSE IF build_successes(results) >= build_failures(results)
              THEN GlowYellow
              ELSE BlinkRed

\* The LED run_one_jenkins sets for Ok(results).
jenkins_led_for(results) ==
    IF build_successes(results) <= 0
    THEN IF indeterminate_count(results) > build_failures(results)
            \/ build_failures(results) = 0
         THEN GlowBlue
         ELSE BlinkRed
    ELSE IF build_failures(results) = 0
         THEN IF build_successes(results) > indeterminate_count(results)
              THEN SolidGreen
              ELSE GlowTeal
         ELSE IF build_successes(results) > build_failures(results)
              THEN GlowYellow
              ELSE BlinkRed

\* ------------------------------------------------------------------ Team City

TeamCityFetchErr == "fetch error"
TeamCityResponses == {"Success", "Failure", "Error", TeamCityFetchErr}

team_city_led_for(response) ==
    IF response = "Success" THEN SolidGreen
    ELSE IF response = "Failure" THEN BlinkRed
    ELSE GlowBlue

\* ------------------------------------------------------------------ Unity

\* One platform request: transport failure, an empty build list, or the
\* status of the newest build.
UnityHttpErr == "http error"
UnityNoBuilds == "no builds"
UnityStatuses == {"Success", "Failure", "Other"}
UnityPlatformResponses == {UnityHttpErr, UnityNoBuilds} \cup UnityStatuses

get_unity_platform_status(response) ==
    IF response \in UnityStatuses THEN response ELSE NotRetrieved

\* Mutation of get_unity_cloud_status: the platforms that failed are left
\* out of the vector.
UnityCloudStatusWithoutErrors(ios, android) ==
    retrieved(<<get_unity_platform_status(ios), get_unity_platform_status(android)>>)

\* vec![ios_build_response, android_build_response]
get_unity_cloud_status(ios, android) ==
    <<get_unity_platform_status(ios), get_unity_platform_status(android)>>

passing_builds(results) == CountIn(retrieved(results), {"Success"})
failing_builds(results) == CountIn(retrieved(results), {"Failure"})
other_status_builds(results) ==
    CountNotIn(retrieved(results), {"Success", "Failure"})

\* Mutation of unity_led_for: the platforms not retrieved are not looked at.
UnityLedIgnoringNotRetrieved(results) ==
    IF other_status_builds(results)
           > passing_builds(results) + failing_builds(results)
    THEN GlowBlue
    ELSE IF passing_builds(results) > 0 /\ failing_builds(results) = 0
         THEN SolidGreen
    ELSE IF passing_builds(results) = 0 /\ failing_builds(results) > 0
         THEN BlinkRed
    ELSE IF passing_builds(results) > 0 /\ failing_builds(results) > 0
         THEN GlowTeal
    ELSE GlowPurple

\* Mutation of unity_led_for: one passing build is enough for green.
UnityLedGreenOnAnyPass(results) ==
    IF not_retrieved_count(results) > 0 THEN GlowBlue
    ELSE IF other_status_builds(results)
                > passing_builds(results) + failing_builds(results)
         THEN GlowBlue
    ELSE IF passing_builds(results) > 0
         THEN SolidGreen
    ELSE IF passing_builds(results) = 0 /\ failing_builds(results) > 0
         THEN BlinkRed
    ELSE GlowPurple

unity_led_for(results) ==
    IF not_retrieved_count(results) > 0 THEN GlowBlue
    ELSE IF other_status_builds(results)
                > passing_builds(results) + failing_builds(results)
         THEN GlowBlue
    ELSE IF passing_builds(results) > 0 /\ failing_builds(results) = 0
         THEN SolidGreen
    ELSE IF passing_builds(results) = 0 /\ failing_builds(results) > 0
         THEN BlinkRed
    ELSE IF passing_builds(results) > 0 /\ failing_builds(results) > 0
         THEN GlowTeal
    ELSE GlowPurple

\* ------------------------------------------------------------------ Unity poll interval

\* const UNITY_SLEEP_DURATION: u64 = 1000 * 60, in milliseconds.
UNITY_SLEEP_DURATION == 60000

\* What `f32::INFINITY as u64` gives, u64::MAX; the integers of the model end at
\* 2^31 - 1, which stands for it (it is only ever compared, never added to).
U64_MAX == 2147483647

Max(a, b) == IF a >= b THEN a ELSE b

\* headers.get::<H>(): None for a header the response does not carry, else
\* Some(value).
NoHeader == <<>>

\* The clock (UTC seconds) of the polls explored.
NowValues == {1000}

\* The X-RateLimit-Remaining and X-RateLimit-Reset headers of the responses
\* explored: neither, one of the two, and both, with 0, 1 or 30 requests
\* left and a reset (a UTC timestamp in milliseconds) in the past, 3600 s or
\* 120000 s ahead of the clock.
RateLimitHeaders ==
    {[remaining |-> NoHeader, reset |-> NoHeader],
     [remaining |-> <<1>>, reset |-> NoHeader],
     [remaining |-> NoHeader, reset |-> <<4600000>>],
     [remaining |-> <<0>>, reset |-> <<4600000>>],
     [remaining |-> <<1>>, reset |-> <<0>>],
     [remaining |-> <<1>>, reset |-> <<4600000>>],
     [remaining |-> <<1>>, reset |-> <<121000000>>],
     [remaining |-> <<30>>, reset |-> <<4600000>>]}

\* One platform's answer: what the request came back as, and the two rate
\* limit headers of the HTTP response; get_unity_platform_status keeps the
\* headers of a response only together with its build status.
UnityPlatformAnswers ==
    [body : {UnityHttpErr, UnityNoBuilds}, remaining : {NoHeader}, reset : {NoHeader}]
    \cup {[body |-> b, remaining |-> h.remaining, reset |-> h.reset] :
              b \in UnityStatuses, h \in RateLimitHeaders}

\* &retrieved_results[0].1: the headers of the first platform retrieved.
first_retrieved(platforms) ==
    LET ok == {i \in DOMAIN platforms : platforms[i].body \in UnityStatuses}
    IN  platforms[CHOOSE i \in ok : \A j \in ok : i <= j]

\* retrieved_results.len() > 0 and both headers are there.
has_rate_limit(platforms) ==
    /\ \E i \in DOMAIN platforms : platforms[i].body \in UnityStatuses
    /\ first_retrieved(platforms).remaining # NoHeader
    /\ first_retrieved(platforms).reset # NoHeader

\* (reset_timestamp_utc - now_unix_seconds as f32).max(1f32), kept in
\* milliseconds so that the division by 1000 loses nothing.
window_ms(reset_timestamp_utc, now_unix_seconds) ==
    Max(reset_timestamp_utc - now_unix_seconds * 1000, 1000)

\* Mutation of floored: the .max(UNITY_SLEEP_DURATION) is left out.
Unfloored(seconds) == seconds

\* .max(UNITY_SLEEP_DURATION as f32)
floored(seconds) == Max(seconds, UNITY_SLEEP_DURATION)

\* (1f32 / max_requests_per_second).max(UNITY_SLEEP_DURATION as f32) as u64,
\* with max_requests_per_second = limit_remaining / window in seconds: the
\* quotient window / limit_remaining, in seconds, truncated by the cast; no
\* requests left gives 1 / 0 = infinity, which the cast saturates.
seconds_per_request(limit_remaining, reset_timestamp_utc, now_unix_seconds) ==
    IF limit_remaining = 0
    THEN U64_MAX
    ELSE floored(window_ms(reset_timestamp_utc, now_unix_seconds)
                    \div (1000 * limit_remaining))

\* Mutation of next_sleep_duration: without a hint the interval falls back to
\* the default.
NextSleepDefaultWithoutHint(platforms, now_unix_seconds, current) ==
    IF has_rate_limit(platforms)
    THEN seconds_per_request(first_retrieved(platforms).remaining[1],
                             first_retrieved(platforms).reset[1],
                             now_unix_seconds)
    ELSE UNITY_SLEEP_DURATION

\* The sleep_duration run_one_unity sleeps and returns.
next_sleep_duration(platforms, now_unix_seconds, current) ==
    IF has_rate_limit(platforms)
    THEN seconds_per_request(first_retrieved(platforms).remaining[1],
                             first_retrieved(platforms).reset[1],
                             now_unix_seconds)
    ELSE current

\* ------------------------------------------------------------------ one poll

NoProvider == "no provider"
SetLed == "led set"
PollPanicked == "panicked"

\* No run_one_* call yet.
NoPoll ==
    [provider |-> NoProvider, outcome |-> "none", led |-> LedNone,
     fetched |-> FALSE, jobs |-> <<>>, response |-> "", platforms |-> <<>>,
     counted |-> FALSE, succeeded |-> 0, failed |-> 0, indeterminate |-> 0,
     interval_in |-> 0, interval_out |-> 0]

\* Everything the Jenkins server can answer to one poll: the job list cannot
\* be fetched, or one response per enabled job.
JenkinsPollAnswers ==
    {[fetched |-> FALSE, jobs |-> <<>>]}
    \cup [fetched : {TRUE}, jobs : SeqsUpTo(JobResponses, MaxRecords)]

\* run_one_jenkins on one answer: the panic of get_jenkins_status, blue for
\* Err(e), else the counts it logs and the LED they select.
run_one_jenkins(answer) ==
    IF answer.fetched /\ get_jenkins_status_panics(answer.jobs)
    THEN [NoPoll EXCEPT !.provider = Jenkins, !.outcome = PollPanicked,
                        !.fetched = TRUE, !.jobs = answer.jobs]
    ELSE IF ~answer.fetched
    THEN [NoPoll EXCEPT !.provider = Jenkins, !.outcome = SetLed,
                        !.led = GlowBlue]
    ELSE LET results == get_jenkins_status(answer.jobs)
         IN  [NoPoll EXCEPT !.provider = Jenkins, !.outcome = SetLed,
                            !.fetched = TRUE, !.jobs = answer.jobs,
                            !.led = jenkins_led_for(results),
                            !.counted = TRUE,
                            !.succeeded = build_successes(results),
                            !.failed = build_failures(results),
                            !.indeterminate = indeterminate_count(results)]

\* run_one_team_city on one answer.
run_one_team_city(response) ==
    [NoPoll EXCEPT !.provider = TeamCity, !.outcome = SetLed,
                   !.response = response,
                   !.led = team_city_led_for(response)]

\* run_one_unity on the two platforms' answers: the LED, the counts it logs
\* when every platform was retrieved, and the interval it sleeps and returns.
run_one_unity(platforms, now_unix_seconds, current) ==
    LET results == get_unity_cloud_status(platforms[1].body, platforms[2].body)
    IN  [NoPoll EXCEPT !.provider = UnityCloud, !.outcome = SetLed,
                       !.platforms = platforms,
                       !.led = unity_led_for(results),
                       !.counted = not_retrieved_count(results) = 0,
                       !.succeeded = IF not_retrieved_count(results) = 0
                                     THEN passing_builds(results) ELSE 0,
                       !.failed = IF not_retrieved_count(results) = 0
                                  THEN failing_builds(results) ELSE 0,
                       !.indeterminate = IF not_retrieved_count(results) = 0
                                         THEN other_status_builds(results) ELSE 0,
                       !.interval_in = current,
                       !.interval_out =
                           next_sleep_duration(platforms, now_unix_seconds, current)]

\* ------------------------------------------------------------------ state

\* Positions of a worker thread.
Unspawned == "unspawned"
CheckBudget == "check budget"      \* run_and_recover, top of the loop
RunOnePc == "run one"              \* body: run_one_*
LoadFlag == "load flag"            \* body: running_flag.load
ShutGlow == "glow white"           \* body: glow_led(WHITE), sleep 1400
ShutOff == "led off"               \* body: turn_led_off, return
BodyOk == "body ok"                \* run_and_recover: thread_result.is_ok()
BodyPanicked == "body panicked"    \* run_and_recover: Err branch, before lock()
Increment == "increment"           \* run_and_recover: *counter += 1, lock held
EndedOk == "ended ok"              \* returned thread_result
EndedFatal == "ended fatal"        \* returned Err("Failure count ... exceeded")
ThreadPanicked == "thread panicked" \* a panic that left the thread's closure

Ended == {EndedOk, EndedFatal, ThreadPanicked}

\* Positions of main: three spawns, three joins.
MainOrder == <<Jenkins, UnityCloud, TeamCity>>
SpawnPc(w) == <<"spawn", w>>
JoinPc(w) == <<"join", w>>
MainDone == <<"done", "">>
MainPanicked == <<"panicked", "">>

IndexOf(w) == CHOOSE i \in DOMAIN MainOrder : MainOrder[i] = w

AfterSpawn(w) ==
    IF IndexOf(w) < Len(MainOrder)
    THEN SpawnPc(MainOrder[IndexOf(w) + 1])
    ELSE JoinPc(MainOrder[1])

\* Mutation of AfterJoin: main stops waiting after its first join.
AfterJoinFirstOnly(w) == MainDone

AfterJoin(w) ==
    IF IndexOf(w) < Len(MainOrder)
    THEN JoinPc(MainOrder[IndexOf(w) + 1])
    ELSE MainDone

NoRead == "none"
ReadRunning == "running"
ReadStopped == "stopped"

Init ==
    /\ is_running_flag = TRUE
    /\ failure_count = 0
    /\ lock_holder = NoHolder
    /\ counter_read = [w \in Workers |-> 0]
    /\ allowed_total_failures \in 0..MaxAllowedFailures
    /\ pc = [w \in Workers |-> Unspawned]
    /\ main_pc = SpawnPc(MainOrder[1])
    /\ led = [w \in Workers |-> LedNone]
    /\ body_runs = [w \in Workers |-> 0]
    /\ panics = [w \in Workers |-> 0]
    /\ last_read = [w \in Workers |-> NoRead]
    /\ ctrlc_received = FALSE
    /\ sleep_duration = UNITY_SLEEP_DURATION
    /\ last_poll = NoPoll

\* ------------------------------------------------------------------ main

\* The ctrlc handler: r.store(false).
CtrlC ==
    /\ main_pc \notin {MainDone, MainPanicked}
    /\ is_running_flag' = FALSE
    /\ ctrlc_received' = TRUE
    /\ UNCHANGED <<failure_count, lock_holder, counter_read, allowed_total_failures,
                   pc, main_pc, led, body_runs, panics, last_read>>
    /\ UNCHANGED poll_vars

\* thread::spawn(move || run_and_recover(name, ...)).
Spawn(w) ==
    /\ main_pc = SpawnPc(w)
    /\ pc' = [pc EXCEPT ![w] = CheckBudget]
    /\ main_pc' = AfterSpawn(w)
    /\ UNCHANGED <<is_running_flag, failure_count, lock_holder, counter_read,
                   allowed_total_failures, led, body_runs, panics, last_read,
                   ctrlc_received>>
    /\ UNCHANGED poll_vars

\* handle.join().expect(...): blocks until the thread is over, panics if the
\* thread panicked.
Join(w) ==
    /\ main_pc = JoinPc(w)
    /\ pc[w] \in Ended
    /\ main_pc' = IF pc[w] = ThreadPanicked THEN MainPanicked ELSE AfterJoin(w)
    /\ UNCHANGED <<is_running_flag, failure_count, lock_holder, counter_read,
                   allowed_total_failures, pc, led, body_runs, panics, last_read,
                   ctrlc_received>>
    /\ UNCHANGED poll_vars

\* ------------------------------------------------------------------ run_and_recover

\* Mutation of CanLock: the counter is not guarded by the mutex.
CanLockUnguarded(w) == TRUE

\* failure_counter.lock() succeeds when no thread holds the mutex.
CanLock(w) == lock_holder = NoHolder

\* Mutation of BudgetExceeded: the comparison is off by one.
BudgetExceededOffByOne == failure_count >= allowed_total_failures

\* Mutation of BudgetExceeded: the budget allows one failure more.
BudgetExceededLate == failure_count > allowed_total_failures + 1

\* *counter > allowed_total_failures
BudgetExceeded == failure_count > allowed_total_failures

\* Mutation of ForcedFlagValue: the forced stop leaves the flag as it is.
ForcedFlagValueKept == is_running_flag

\* Mutation of ForcedFlagValue: the forced stop stores true.
ForcedFlagValueInverted == TRUE

\* The value run_and_recover stores into the flag on a forced stop.
ForcedFlagValue == FALSE

\* Mutation of StartInterval: a restarted body goes on with the interval the
\* body before it had reached.
StartIntervalCarried == sleep_duration

\* let mut sleep_duration = UNITY_SLEEP_DURATION, at the start of
\* start_unity_thread.
StartInterval == UNITY_SLEEP_DURATION

\* Top of the loop: under the lock, stop everything if the budget is spent,
\* else enter catch_unwind(func), whose body begins with RgbLedLight::new and
\* run_power_on_test (ending on glow_led(PURPLE)) and, for Unity, with the
\* initialisation of its interval, before its poll loop.
RRCheck(w) ==
    /\ pc[w] = CheckBudget
    /\ CanLock(w)
    /\ IF BudgetExceeded
       THEN /\ is_running_flag' = ForcedFlagValue
            /\ pc' = [pc EXCEPT ![w] = EndedFatal]
            /\ UNCHANGED <<led, body_runs, last_read, sleep_duration>>
       ELSE /\ pc' = [pc EXCEPT ![w] = RunOnePc]
            /\ led' = [led EXCEPT ![w] = GlowPurple]
            /\ body_runs' = [body_runs EXCEPT ![w] = @ + 1]
            /\ last_read' = [last_read EXCEPT ![w] = NoRead]
            /\ sleep_duration' = IF w = UnityCloud
                                 THEN StartInterval
                                 ELSE sleep_duration
            /\ UNCHANGED is_running_flag
    /\ UNCHANGED <<failure_count, lock_holder, counter_read, allowed_total_failures,
                   main_pc, panics, ctrlc_received>>
    /\ UNCHANGED last_poll

\* Mutation of AfterBodyOk: a normal return restarts the body.
AfterBodyOkRestarts == CheckBudget

\* Where a thread stands after its body has returned normally.
AfterBodyOk == EndedOk

\* thread_result.is_ok(): log and return it.
RRBodyOk(w) ==
    /\ pc[w] = BodyOk
    /\ pc' = [pc EXCEPT ![w] = AfterBodyOk]
    /\ UNCHANGED <<is_running_flag, failure_count, lock_holder, counter_read,
                   allowed_total_failures, main_pc, led, body_runs, panics,
                   last_read, ctrlc_received>>
    /\ UNCHANGED poll_vars

\* Err branch: failure_counter.lock(), and the load half of *counter += 1.
RRLock(w) ==
    /\ pc[w] = BodyPanicked
    /\ CanLock(w)
    /\ lock_holder' = w
    /\ counter_read' = [counter_read EXCEPT ![w] = failure_count]
    /\ pc' = [pc EXCEPT ![w] = Increment]
    /\ UNCHANGED <<is_running_flag, failure_count, allowed_total_failures, main_pc,
                   led, body_runs, panics, last_read, ctrlc_received>>
    /\ UNCHANGED poll_vars

\* The store half of *counter += 1, the guard's drop, and back to the loop top.
RRIncrement(w) ==
    /\ pc[w] = Increment
    /\ failure_count' = counter_read[w] + 1
    /\ counter_read' = [counter_read EXCEPT ![w] = 0]
    /\ lock_holder' = NoHolder
    /\ pc' = [pc EXCEPT ![w] = CheckBudget]
    /\ UNCHANGED <<is_running_flag, allowed_total_failures, main_pc, led, body_runs,
                   panics, last_read, ctrlc_received>>
    /\ UNCHANGED poll_vars

\* ------------------------------------------------------------------ worker bodies

\* Mutation of CaughtPanicPc: the panic is not caught and unwinds the thread.
UncaughtPanicPc == ThreadPanicked

\* Where panic::catch_unwind leaves the thread when func panics.
CaughtPanicPc == BodyPanicked

\* func panicked: catch_unwind returns Err to run_and_recover.
Panicked(w) ==
    /\ pc' = [pc EXCEPT ![w] = CaughtPanicPc]
    /\ panics' = [panics EXCEPT ![w] = @ + 1]
    /\ UNCHANGED <<is_running_flag, failure_count, lock_holder, counter_read,
                   allowed_total_failures, main_pc, led, body_runs, last_read,
                   ctrlc_received>>
    /\ UNCHANGED poll_vars

\* What run_one_* does to its thread: the LED set to colour, the sleep, the
\* return to the poll loop.
SetAndSlept(w, colour) ==
    /\ led' = [led EXCEPT ![w] = colour]
    /\ pc' = [pc EXCEPT ![w] = LoadFlag]
    /\ last_read' = [last_read EXCEPT ![w] = NoRead]
    /\ UNCHANGED <<is_running_flag, failure_count, lock_holder, counter_read,
                   allowed_total_failures, main_pc, body_runs, panics,
                   ctrlc_received>>

\* run_one_* set the LED to colour, slept and returned.
Polled(w, colour) ==
    /\ SetAndSlept(w, colour)
    /\ UNCHANGED poll_vars

\* Every answer the Jenkins server can give to one poll: one response per
\* enabled job.
JenkinsAnswers == SeqsUpTo(JobResponses, MaxJobs)

\* The colours run_one_jenkins can leave on the LED: blue when the job list
\* itself cannot be fetched, else the aggregate of the per-job results.
JenkinsColours ==
    {GlowBlue} \cup
    {jenkins_led_for(get_jenkins_status(jobs)) :
        jobs \in {j \in JenkinsAnswers : ~get_jenkins_status_panics(j)}}

\* Some answer makes get_jenkins_status panic.
JenkinsCanPanic == \E jobs \in JenkinsAnswers : get_jenkins_status_panics(jobs)

TeamCityColours == {team_city_led_for(response) : response \in TeamCityResponses}

UnityColours ==
    {unity_led_for(get_unity_cloud_status(ios, android)) :
        ios \in UnityPlatformResponses, android \in UnityPlatformResponses}

\* run_one_jenkins: fetch, aggregate, set the LED, sleep; or panic on a
\* finished build without a result.
RunOneJenkins ==
    /\ pc[Jenkins] = RunOnePc
    /\ \/ \E colour \in JenkinsColours : Polled(Jenkins, colour)
       \/ JenkinsCanPanic /\ Panicked(Jenkins)

\* run_one_team_city
RunOneTeamCity ==
    /\ pc[TeamCity] = RunOnePc
    /\ \E colour \in TeamCityColours : Polled(TeamCity, colour)

\* run_one_unity
RunOneUnity ==
    /\ pc[UnityCloud] = RunOnePc
    /\ \E colour \in UnityColours : Polled(UnityCloud, colour)

\* A panic raised inside the body by a collaborator (LED driver, HTTP
\* client): the failure catch_unwind is there to catch.
BodyPanics(w) ==
    /\ pc[w] = RunOnePc
    /\ Panicked(w)

\* Mutation of AfterFlagLoad: the loop ignores the flag, as start_thread does.
AfterFlagLoadIgnored(running) == RunOnePc

\* Mutation of AfterFlagLoad: the test of the flag is inverted.
AfterFlagLoadInverted(running) == IF running THEN ShutGlow ELSE RunOnePc

\* Where the loop goes on the value it loaded from the flag.
AfterFlagLoad(running) == IF running THEN RunOnePc ELSE ShutGlow

\* if !running_flag.load(SeqCst)
CheckFlag(w) ==
    /\ pc[w] = LoadFlag
    /\ last_read' = [last_read EXCEPT ![w] =
                        IF is_running_flag THEN ReadRunning ELSE ReadStopped]
    /\ pc' = [pc EXCEPT ![w] = AfterFlagLoad(is_running_flag)]
    /\ UNCHANGED <<is_running_flag, failure_count, lock_holder, counter_read,
                   allowed_total_failures, main_pc, led, body_runs, panics,
                   ctrlc_received>>
    /\ UNCHANGED poll_vars

\* Mutation of GlowShutdown: the body goes on to turn_led_off without the
\* white glow.
GlowShutdownSkipped(w) ==
    /\ pc[w] = ShutGlow
    /\ pc' = [pc EXCEPT ![w] = ShutOff]
    /\ UNCHANGED <<is_running_flag, failure_count, lock_holder, counter_read,
                   allowed_total_failures, main_pc, led, body_runs, panics,
                   last_read, ctrlc_received>>
    /\ UNCHANGED poll_vars

\* glow_led(WHITE); sleep(1400)
GlowShutdown(w) ==
    /\ pc[w] = ShutGlow
    /\ led' = [led EXCEPT ![w] = GlowWhite]
    /\ pc' = [pc EXCEPT ![w] = ShutOff]
    /\ UNCHANGED <<is_running_flag, failure_count, lock_holder, counter_read,
                   allowed_total_failures, main_pc, body_runs, panics, last_read,
                   ctrlc_received>>
    /\ UNCHANGED poll_vars

\* turn_led_off(); return
OffAndReturn(w) ==
    /\ pc[w] = ShutOff
    /\ led' = [led EXCEPT ![w] = LedOff]
    /\ pc' = [pc EXCEPT ![w] = BodyOk]
    /\ UNCHANGED <<is_running_flag, failure_count, lock_holder, counter_read,
                   allowed_total_failures, main_pc, body_runs, panics, last_read,
                   ctrlc_received>>
    /\ UNCHANGED poll_vars

\* ------------------------------------------------------------------ specification

\* run_one_* of the provider w polls.
RunOne(w) ==
    \/ w = Jenkins /\ RunOneJenkins
    \/ w = TeamCity /\ RunOneTeamCity
    \/ w = UnityCloud /\ RunOneUnity

\* One step of the thread main spawned for w.
WorkerStep(w) ==
    \/ RRCheck(w)
    \/ RunOne(w)
    \/ BodyPanics(w)
    \/ CheckFlag(w)
    \/ GlowShutdown(w)
    \/ OffAndReturn(w)
    \/ RRBodyOk(w)
    \/ RRLock(w)
    \/ RRIncrement(w)

MainStep ==
    \/ \E w \in Workers : Spawn(w)
    \/ \E w \in Workers : Join(w)

Next ==
    \/ CtrlC
    \/ MainStep
    \/ \E w \in Workers : WorkerStep(w)

Spec == Init /\ [][Next]_vars

\* The operating system schedules every thread that can run: main and each
\* worker thread keep taking steps while they have one.  Ctrl-C is up to the
\* user and gets no fairness.
FairSpec ==
    /\ Spec
    /\ WF_vars(MainStep)
    /\ \A w \in Workers : WF_vars(WorkerStep(w))

\* ------------------------------------------------------------------ one poll at a time

\* The variables of the threads, which a run_one_* call on its own leaves alone.
thread_vars == <<is_running_flag, failure_count, lock_holder, counter_read,
                 allowed_total_failures, pc, main_pc, led, body_runs, panics,
                 last_read, ctrlc_received>>

\* run_one_jenkins is called on some answer of the server.
PollJenkins ==
    /\ last_poll.provider = NoProvider
    /\ \E answer \in JenkinsPollAnswers : last_poll' = run_one_jenkins(answer)
    /\ UNCHANGED <<sleep_duration, thread_vars>>

\* run_one_team_city is called on some answer of the server.
PollTeamCity ==
    /\ last_poll.provider = NoProvider
    /\ \E response \in TeamCityResponses :
           last_poll' = run_one_team_city(response)
    /\ UNCHANGED <<sleep_duration, thread_vars>>

\* sleep_duration = run_one_unity(.., sleep_duration) on some answers.
PollUnity ==
    /\ last_poll.provider \in {NoProvider, UnityCloud}
    /\ \E ios \in UnityPlatformAnswers, android \in UnityPlatformAnswers,
          now_unix_seconds \in NowValues :
           /\ last_poll' = run_one_unity(<<ios, android>>, now_unix_seconds,
                                         sleep_duration)
           /\ sleep_duration' = last_poll'.interval_out
    /\ UNCHANGED thread_vars

PollNext ==
    \/ PollJenkins
    \/ PollTeamCity
    \/ PollUnity

\* Each run_one_* function on every answer: run_one_jenkins and
\* run_one_team_city, which keep nothing between calls, called once;
\* run_one_unity called over and over, its interval carried from call to
\* call as start_unity_thread does.
PollInit == Init /\ allowed_total_failures = MaxAllowedFailures

PollSpec == PollInit /\ [][PollNext]_vars

\* ------------------------------------------------------------------ properties

\* The thread of w takes a step.
Moves(w) == pc'[w] # pc[w]

\* The thread of w is over, by a clean stop or by the spent budget.
Terminated(w) == pc[w] \in {EndedOk, EndedFatal}

TotalPanics == panics[Jenkins] + panics[UnityCloud] + panics[TeamCity]

\* Threads whose body has panicked and whose increment is still to be stored.
PendingIncrements == {w \in Workers : pc[w] \in {BodyPanicked, Increment}}

\* C1: a loop iteration of run_and_recover that starts with the failure count
\* above the allowed total stores false into the running flag and ends the
\* worker with the fatal result, after which the body never runs again; the
\* body is only ever entered from a check that saw the count at or below the
\* allowed total.
C1_BudgetExceededStops ==
    [][\A w \in Workers :
          /\ (pc[w] = CheckBudget /\ Moves(w)
                /\ failure_count > allowed_total_failures)
               => (/\ ~is_running_flag'
                   /\ pc'[w] = EndedFatal
                   /\ body_runs'[w] = body_runs[w])
          /\ pc[w] = EndedFatal
               => (pc'[w] = EndedFatal /\ body_runs'[w] = body_runs[w])
          /\ body_runs'[w] # body_runs[w]
               => (/\ pc[w] = CheckBudget
                   /\ failure_count <= allowed_total_failures
                   /\ body_runs'[w] = body_runs[w] + 1)
      ]_vars

C1_Witness ==
    \E w \in Workers :
        /\ pc[w] = EndedFatal
        /\ ~is_running_flag
        /\ ~ctrlc_received
        /\ failure_count > allowed_total_failures

\* The run so far is one in which every body activation of f that is over
\* ended abnormally and no sibling's body ever did.
OnlyFails(f) ==
    /\ pc[f] \notin {ShutGlow, ShutOff, BodyOk, EndedOk}
    /\ \A v \in Workers \ {f} : panics[v] = 0

\* C2: with one worker whose body always ends abnormally and siblings whose
\* bodies never do, that body is run exactly allowed+1 times: the check
\* restarts it while it has failed at most allowed times, and the check made
\* after failure allowed+1 (no earlier, no later) forces the stop.
C2_ExactlyThresholdPlusOne ==
    /\ [](\A f \in Workers : OnlyFails(f) =>
             /\ body_runs[f] <= allowed_total_failures + 1
             /\ panics[f] <= allowed_total_failures + 1
             /\ pc[f] = EndedFatal =>
                   /\ body_runs[f] = allowed_total_failures + 1
                   /\ panics[f] = allowed_total_failures + 1
                   /\ failure_count = allowed_total_failures + 1
                   /\ ~is_running_flag)
    /\ [][\A f \in Workers :
             (OnlyFails(f) /\ pc[f] = CheckBudget /\ Moves(f)) =>
                 IF panics[f] = allowed_total_failures + 1
                 THEN pc'[f] = EndedFatal /\ ~is_running_flag'
                 ELSE pc'[f] = RunOnePc /\ is_running_flag' = is_running_flag
       ]_vars

C2_Witness ==
    \E f \in Workers :
        /\ OnlyFails(f)
        /\ allowed_total_failures >= 1
        /\ pc[f] = EndedFatal
        /\ body_runs[f] = allowed_total_failures + 1
        /\ ~ctrlc_received
        /\ \A v \in Workers \ {f} : pc[v] \in {RunOnePc, LoadFlag}

\* C3: once the running flag is false, every worker thread ends and main's
\* three joins return, whichever workers are healthy, keep failing or are
\* restarted after the flag went false.
C3_ShutdownReachesEveryWorker ==
    (~is_running_flag) ~> (main_pc = MainDone /\ \A w \in Workers : Terminated(w))

C3_Witness ==
    /\ main_pc = MainDone
    /\ ~is_running_flag
    /\ \E w \in Workers : pc[w] = EndedFatal
    /\ \E w \in Workers : pc[w] = EndedOk /\ panics[w] = 0
    /\ \E w \in Workers : pc[w] = EndedOk /\ panics[w] > 0

\* C4: when the body returns normally, run_and_recover returns: the failure
\* count is left as it is, the body is not entered again, and the thread is
\* over with the body's result.
C4_NormalReturnEndsCleanly ==
    [][\A w \in Workers :
          /\ (pc[w] = BodyOk /\ Moves(w))
               => (/\ pc'[w] = EndedOk
                   /\ failure_count' = failure_count
                   /\ panics' = panics
                   /\ body_runs' = body_runs)
          /\ pc[w] = EndedOk
               => (/\ pc'[w] = EndedOk
                   /\ body_runs'[w] = body_runs[w]
                   /\ panics'[w] = panics[w])
      ]_vars

C4_Witness ==
    \E w \in Workers : pc[w] = EndedOk /\ body_runs[w] = 1 /\ failure_count = 0

\* C5: the failure count is the number of abnormal body terminations seen by
\* the three run_and_recover loops, less those whose increment is still
\* waiting for the mutex or half done; no increment is lost or doubled, so
\* once no increment is pending the two are equal.
C5_NoLostIncrement ==
    /\ failure_count + Cardinality(PendingIncrements) = TotalPanics
    /\ \A w \in Workers : pc[w] = Increment =>
           (lock_holder = w /\ counter_read[w] = failure_count)

C5_Witness ==
    \E w \in Workers, v \in Workers :
        /\ w # v
        /\ pc[w] = Increment
        /\ pc[v] = BodyPanicked
        /\ failure_count >= 1

\* C6: a panic of one worker's body, and its handling by run_and_recover,
\* changes that thread's own state and the failure count only: no sibling
\* thread, LED of a sibling, or position of main changes, no thread is
\* unwound by a panic, and main's joins never panic.
C6_PanicIsIsolated ==
    /\ [](main_pc # MainPanicked /\ \A w \in Workers : pc[w] # ThreadPanicked)
    /\ [][\A w \in Workers :
             (Moves(w) /\ (panics'[w] # panics[w]
                             \/ pc[w] \in {BodyPanicked, Increment})) =>
                 /\ \A v \in Workers \ {w} :
                        /\ pc'[v] = pc[v]
                        /\ led'[v] = led[v]
                        /\ body_runs'[v] = body_runs[v]
                        /\ panics'[v] = panics[v]
                 /\ main_pc' = main_pc
                 /\ is_running_flag' = is_running_flag
                 /\ pc'[w] \in {BodyPanicked, Increment, CheckBudget}
       ]_vars

C6_Witness ==
    /\ main_pc = MainDone
    /\ \E w \in Workers : panics[w] > 0 /\ pc[w] = EndedOk
    /\ \E w \in Workers : panics[w] = 0 /\ pc[w] = EndedOk

\* C7: main is past its joins only when each of the three worker threads is
\* over, by a clean stop or by the spent budget.
C7_MainReturnsAfterAllWorkers ==
    main_pc = MainDone => \A w \in Workers : Terminated(w)

C7_Witness ==
    /\ main_pc = MainDone
    /\ \E w \in Workers : pc[w] = EndedOk
    /\ \E w \in Workers : pc[w] = EndedFatal

\* C8: the running flag never goes back to true once it is false, whatever
\* restarts follow, and the only steps that change it are the Ctrl-C handler
\* and run_and_recover's forced stop.
C8_FlagNeverReset ==
    /\ [][~is_running_flag => ~is_running_flag']_vars
    /\ [][is_running_flag' # is_running_flag =>
             (CtrlC \/ \E w \in Workers : RRCheck(w) /\ pc'[w] = EndedFatal)]_vars

C8_Witness ==
    /\ ~is_running_flag
    /\ ctrlc_received
    /\ \E w \in Workers : pc[w] = EndedFatal
    /\ \E w \in Workers : pc[w] = RunOnePc /\ body_runs[w] >= 2

\* The body of w starts a poll: run_one_* is entered.
StartsPoll(w) == pc[w] = RunOnePc /\ Moves(w)

\* C9: every worker loads the running flag before each iteration of its poll
\* loop, the first one after a start or restart included: a worker that
\* starts a poll while the flag is false has loaded the flag as true since
\* its previous poll (the flag went false after that load).
C9_FlagReadBeforeEveryPoll ==
    [][\A w \in Workers :
          (StartsPoll(w) /\ ~is_running_flag) => last_read[w] = ReadRunning
      ]_vars

\* C10: a body that loads the flag as false after a poll glows white, then
\* turns its LED off, then returns normally without another poll;
\* run_and_recover ends the thread on that return, so the stop adds no
\* failure and no restart.
C10_CooperativeStop ==
    /\ [](\A w \in Workers : pc[w] \in {BodyOk, EndedOk} => led[w] = LedOff)
    /\ [](\A w \in Workers : pc[w] = ShutOff => led[w] = GlowWhite)
    /\ [][\A w \in Workers :
             /\ (pc[w] = LoadFlag /\ Moves(w) /\ ~is_running_flag)
                  => pc'[w] = ShutGlow
             /\ (pc[w] = ShutGlow /\ Moves(w))
                  => (pc'[w] = ShutOff /\ led'[w] = GlowWhite)
             /\ (pc[w] = ShutOff /\ Moves(w))
                  => (pc'[w] = BodyOk /\ led'[w] = LedOff)
             /\ (pc[w] = BodyOk /\ Moves(w)) => pc'[w] = EndedOk
             /\ pc[w] \in {ShutGlow, ShutOff, BodyOk, EndedOk}
                  => (/\ pc'[w] \in {ShutGlow, ShutOff, BodyOk, EndedOk}
                      /\ panics'[w] = panics[w]
                      /\ body_runs'[w] = body_runs[w]
                      /\ (Moves(w) => failure_count' = failure_count))
       ]_vars

C10_Witness ==
    \E w \in Workers :
        /\ pc[w] = EndedOk
        /\ led[w] = LedOff
        /\ ~is_running_flag
        /\ TotalPanics = 0
        /\ failure_count = 0

\* ------------------------------------------------------------------ properties of one poll

\* A run_one_* call has been made.
PollOf(provider) == last_poll.provider = provider

\* C11: no answer of a provider's server, for the provider as a whole or for
\* one item, ends the poll abnormally: every run_one_* call returns after
\* setting the LED (so the body does not panic, and run_and_recover neither
\* increments the failure count nor restarts it).
C11_FetchFailuresNeverCrash ==
    last_poll.provider # NoProvider => last_poll.outcome = SetLed

\* The records of the poll: one per enabled Jenkins job, the one aggregate
\* status of Team City, one per Unity platform.
Records ==
    IF PollOf(UnityCloud)
    THEN [i \in DOMAIN last_poll.platforms |-> last_poll.platforms[i].body]
    ELSE IF PollOf(TeamCity) THEN <<last_poll.response>>
    ELSE last_poll.jobs

\* The poll went through the provider's counting code.
Counted == last_poll.outcome = SetLed /\ last_poll.counted

\* C12: whenever the source client hands a sequence of records to the
\* aggregation (any Jenkins job list that was fetched, the empty one and ones
\* with unretrieved jobs included; any pair of Unity platform results), the
\* aggregation completes by setting the LED, and the counts it computes add
\* up to the number of records, unretrieved ones included.
C12_CountsAddUp ==
    /\ (PollOf(Jenkins) /\ last_poll.fetched /\ last_poll.outcome = SetLed)
          => (last_poll.counted /\ last_poll.led # LedNone)
    /\ PollOf(UnityCloud) => (last_poll.outcome = SetLed /\ last_poll.led # LedNone)
    /\ Counted =>
          last_poll.succeeded + last_poll.failed + last_poll.indeterminate
              = Len(Records)

C12_Witness ==
    /\ PollOf(Jenkins)
    /\ Counted
    /\ Len(Records) = 3
    /\ \E i \in DOMAIN Records : Records[i] = JobHttpErr
    /\ last_poll.succeeded = 1
    /\ last_poll.failed = 1
    /\ last_poll.indeterminate = 1

\* The states of the claims, as LED signals: solid green is Healthy, blinking
\* red Unhealthy, glowing blue the unreachable / ambiguous signal, glowing
\* teal or yellow Degraded.
IsHealthy == last_poll.led = SolidGreen
IsUnhealthy == last_poll.led = BlinkRed
IsUnreachable == last_poll.led = GlowBlue
IsDegraded == last_poll.led \in {GlowTeal, GlowYellow}

\* The poll emitted a state.
Aggregated == last_poll.provider # NoProvider /\ last_poll.outcome = SetLed

\* The summary of the poll's records: the provider's own counts where its
\* code computes them, else (a Team City poll, a Jenkins poll whose job list
\* was not fetched, a Unity poll with a platform not retrieved) the
\* confirmed successes, the confirmed failures and the rest of the records.
Succeeded ==
    IF last_poll.counted THEN last_poll.succeeded
    ELSE CountIn(Records, {"Success"})
Failed ==
    IF last_poll.counted THEN last_poll.failed
    ELSE CountIn(Records, {"Failure"})
Indeterminate ==
    IF last_poll.counted THEN last_poll.indeterminate
    ELSE CountNotIn(Records, {"Success", "Failure"})

\* A Unity poll with a platform that was not retrieved.
UnityNotAllRetrieved ==
    /\ PollOf(UnityCloud)
    /\ \E i \in DOMAIN Records : Records[i] \notin UnityStatuses

\* C13 as claimed: for every provider, with no confirmed success the state
\* is the unreachable signal if indeterminate > failed or failed = 0, and
\* Unhealthy otherwise.
C13_NoSuccessRule ==
    (Aggregated /\ Succeeded = 0) =>
        IF Indeterminate > Failed \/ Failed = 0
        THEN IsUnreachable
        ELSE IsUnhealthy

\* C13, amended: with no confirmed success the state is the unreachable
\* signal if indeterminate > failed or failed = 0, or if the provider is
\* Unity and one of its platforms was not retrieved; it is Unhealthy
\* otherwise.
C13_NoSuccessRuleAmended ==
    (Aggregated /\ Succeeded = 0) =>
        IF UnityNotAllRetrieved \/ Indeterminate > Failed \/ Failed = 0
        THEN IsUnreachable
        ELSE IsUnhealthy

C13_Witness ==
    /\ PollOf(UnityCloud)
    /\ Aggregated
    /\ Records = <<"Failure", UnityHttpErr>>
    /\ Succeeded = 0
    /\ Failed = 1
    /\ Indeterminate = 1
    /\ IsUnreachable

\* C14 as claimed: for every provider, with confirmed successes and no
\* confirmed failure the state is Healthy exactly when succeeded >
\* indeterminate, and Degraded otherwise.
C14_NoFailureRule ==
    (Aggregated /\ Succeeded > 0 /\ Failed = 0) =>
        IF Succeeded > Indeterminate THEN IsHealthy ELSE IsDegraded

\* C14, amended: with confirmed successes and no confirmed failure, Jenkins
\* and Team City emit Healthy exactly when succeeded > indeterminate and
\* Degraded otherwise (equal counts give Degraded); Unity emits the
\* unreachable signal if a platform was not retrieved and Healthy otherwise,
\* also when succeeded = indeterminate, and never Degraded.
C14_NoFailureRuleAmended ==
    (Aggregated /\ Succeeded > 0 /\ Failed = 0) =>
        IF PollOf(UnityCloud)
        THEN IF UnityNotAllRetrieved THEN IsUnreachable ELSE IsHealthy
        ELSE IF Succeeded > Indeterminate THEN IsHealthy ELSE IsDegraded

C14_Witness ==
    /\ PollOf(Jenkins)
    /\ Counted
    /\ Succeeded = 1
    /\ Indeterminate = 1
    /\ Failed = 0
    /\ last_poll.led = GlowTeal

\* C15 as claimed: for every provider, with confirmed successes and
\* confirmed failures the state is Degraded if succeeded > failed and
\* Unhealthy otherwise, equal counts included.
C15_MixedRule ==
    (Aggregated /\ Succeeded > 0 /\ Failed > 0) =>
        IF Succeeded > Failed THEN IsDegraded ELSE IsUnhealthy

\* C15, amended: with confirmed successes and confirmed failures, Jenkins
\* emits Degraded (yellow) if succeeded > failed and Unhealthy otherwise,
\* equal counts included; Unity, whose two platforms then are one success and
\* one failure, emits Degraded (teal) although the counts are equal.
C15_MixedRuleAmended ==
    (Aggregated /\ Succeeded > 0 /\ Failed > 0) =>
        IF PollOf(UnityCloud)
        THEN Succeeded = 1 /\ Failed = 1 /\ last_poll.led = GlowTeal
        ELSE IF Succeeded > Failed
             THEN last_poll.led = GlowYellow
             ELSE IsUnhealthy

C15_Witness ==
    /\ PollOf(Jenkins)
    /\ Counted
    /\ Succeeded = 1
    /\ Failed = 1
    /\ IsUnhealthy

\* The response run_one_unity reads the rate limit from: the first platform
\* retrieved, if any.
HintSources == {i \in DOMAIN Records : Records[i] \in UnityStatuses}
HintSource == CHOOSE i \in HintSources : \A j \in HintSources : i <= j

\* The poll yields a rate limit hint: a platform was retrieved and the
\* response consulted carries both headers.
HasHint ==
    /\ PollOf(UnityCloud)
    /\ HintSources # {}
    /\ last_poll.platforms[HintSource].remaining # NoHeader
    /\ last_poll.platforms[HintSource].reset # NoHeader

HintRemaining == last_poll.platforms[HintSource].remaining[1]
HintReset == last_poll.platforms[HintSource].reset[1]

\* C16: a Unity poll without a rate limit hint (no platform retrieved, or the
\* remaining or the reset header absent) returns the interval it was given,
\* whatever that interval is, and the worker keeps it for the next cycle.
C16_NoHintKeepsInterval ==
    (PollOf(UnityCloud) /\ ~HasHint) =>
        /\ last_poll.interval_out = last_poll.interval_in
        /\ sleep_duration = last_poll.interval_in

C16_Witness ==
    /\ PollOf(UnityCloud)
    /\ ~HasHint
    /\ HintSources # {}
    /\ last_poll.interval_in = 120000
    /\ sleep_duration = 120000

\* C17: the interval of the Unity worker is never below the floor,
\* UNITY_SLEEP_DURATION, whatever the hints of the polls so far (no request
\* left, a reset in the past): every poll is entered with an interval at
\* least the floor and returns one.
C17_IntervalNeverBelowFloor ==
    /\ sleep_duration >= UNITY_SLEEP_DURATION
    /\ PollOf(UnityCloud) =>
          /\ last_poll.interval_in >= UNITY_SLEEP_DURATION
          /\ last_poll.interval_out >= UNITY_SLEEP_DURATION

C17_Witness ==
    /\ HasHint
    /\ HintRemaining = 30
    /\ last_poll.interval_in = 120000
    /\ last_poll.interval_out = UNITY_SLEEP_DURATION
    /\ sleep_duration = UNITY_SLEEP_DURATION

\* The spacing, in milliseconds, that spends the requests left evenly over
\* the time to the reset: window / remaining, window = max(reset - now, 1 s).
BudgetSpacingMs(now_unix_seconds) ==
    Max(HintReset - now_unix_seconds * 1000, 1000) \div HintRemaining

\* C18: with a hint that leaves requests, the interval the worker sleeps is
\* max(candidate, floor), candidate = window / remaining and floor in the
\* same unit: it is the budget's spacing whenever that is above the floor.
C18_IntervalIsMaxOfCandidateAndFloor ==
    (HasHint /\ HintRemaining > 0) =>
        \E now_unix_seconds \in NowValues :
            last_poll.interval_out
                = Max(BudgetSpacingMs(now_unix_seconds), UNITY_SLEEP_DURATION)

\* C19 as claimed: in the counts of a provider, failed is the number of
\* records with status Failure, succeeded the number with status Success,
\* and indeterminate the number of all other records, retrieved with
\* another status (Unstable, Building, unknown) or not retrieved.
C19_CountingRule ==
    Counted =>
        /\ last_poll.failed = CountIn(Records, {"Failure"})
        /\ last_poll.succeeded = CountIn(Records, {"Success"})
        /\ last_poll.indeterminate = CountNotIn(Records, {"Success", "Failure"})

\* The statuses a provider counts as failed.
FailedStatuses ==
    IF PollOf(Jenkins) THEN {"Failure", "Unstable"} ELSE {"Failure"}

\* C19, amended: succeeded is the number of records with status Success;
\* failed is the number with status Failure and, for Jenkins, Unstable;
\* indeterminate is the number of all other records, retrieved with another
\* status or not retrieved.
C19_CountingRuleAmended ==
    Counted =>
        /\ last_poll.failed = CountIn(Records, FailedStatuses)
        /\ last_poll.succeeded = CountIn(Records, {"Success"})
        /\ last_poll.indeterminate
              = CountNotIn(Records, FailedStatuses \cup {"Success"})

C19_Witness ==
    /\ PollOf(Jenkins)
    /\ Counted
    /\ Records = <<"Unstable", JobBuilding, JobHttpErr>>
    /\ last_poll.failed = 1
    /\ last_poll.succeeded = 0
    /\ last_poll.indeterminate = 2

\* C20: a Unity poll always has two platform results, and never ends in the
\* fallback branch of its decision: the LED is never set to purple.
C20_UnityFallbackUnreachable ==
    PollOf(UnityCloud) =>
        /\ Len(Records) = 2
        /\ last_poll.outcome = SetLed
        /\ last_poll.led # GlowPurple

C20_Witness ==
    /\ PollOf(UnityCloud)
    /\ Counted
    /\ Records = <<"Other", "Failure">>
    /\ last_poll.led = BlinkRed

\* ------------------------------------------------------------------ the Unity worker

\* The answers of the Unity server explored with the whole worker: a platform
\* that cannot be reached, or a passing build under each of the headers.
UnityWorkerAnswers ==
    {answer \in UnityPlatformAnswers : answer.body \in {UnityHttpErr, "Success"}}

\* sleep_duration = run_one_unity(.., sleep_duration) in the loop of
\* start_unity_thread.
UnityRunOne ==
    /\ pc[UnityCloud] = RunOnePc
    /\ \E ios \in UnityWorkerAnswers, android \in UnityWorkerAnswers,
          now_unix_seconds \in NowValues :
           /\ last_poll' = run_one_unity(<<ios, android>>, now_unix_seconds,
                                         sleep_duration)
           /\ sleep_duration' = last_poll'.interval_out
           /\ SetAndSlept(UnityCloud, last_poll'.led)

\* One step of the Unity thread, its polls with their answers and interval.
UnityWorkerStep ==
    \/ RRCheck(UnityCloud)
    \/ UnityRunOne
    \/ BodyPanics(UnityCloud)
    \/ CheckFlag(UnityCloud)
    \/ GlowShutdown(UnityCloud)
    \/ OffAndReturn(UnityCloud)
    \/ RRBodyOk(UnityCloud)
    \/ RRLock(UnityCloud)
    \/ RRIncrement(UnityCloud)

UnityNext ==
    \/ CtrlC
    \/ \E w \in Workers : Spawn(w)
    \/ UnityWorkerStep

\* main spawning the threads and the Unity thread running, the other two
\* threads not yet scheduled.
UnitySpec == Init /\ [][UnityNext]_vars

\* The body of the Unity worker has just been entered: no poll and no load of
\* the flag yet.
UnityBodyFresh ==
    pc[UnityCloud] = RunOnePc /\ last_read[UnityCloud] = NoRead

\* C21: every start of the Unity body, the restarts after a panic included,
\* begins with the default interval, whatever the polls before had made of
\* it; inside one run of the body each poll is given the interval the poll
\* before it returned.
C21_IntervalResetOnRestart ==
    [][/\ UnityBodyFresh' => sleep_duration' = UNITY_SLEEP_DURATION
       /\ (pc[UnityCloud] = RunOnePc /\ pc'[UnityCloud] = LoadFlag)
            => (/\ last_poll'.interval_in = sleep_duration
                /\ sleep_duration' = last_poll'.interval_out)
       /\ pc[UnityCloud] = LoadFlag => sleep_duration' = sleep_duration
      ]_vars

C21_Witness ==
    /\ UnityBodyFresh
    /\ body_runs[UnityCloud] = 2
    /\ panics[UnityCloud] = 1
    /\ last_poll.interval_out = 120000
    /\ sleep_duration = UNITY_SLEEP_DURATION

\* ------------------------------------------------------------------ more properties of one poll

\* C22: a poll of any provider sets solid green only when its records hold at
\* least one Success and no Failure (none of what the provider counts as
\* failed either); a poll without a success, with a failure or with a failed
\* fetch never sets green.
C22_HealthyOnlyWithSuccessAndNoFailure ==
    (Aggregated /\ IsHealthy) =>
        /\ CountIn(Records, {"Success"}) >= 1
        /\ CountIn(Records, {"Failure"}) = 0
        /\ Succeeded >= 1
        /\ Failed = 0

C22_Witness ==
    /\ PollOf(UnityCloud)
    /\ Aggregated
    /\ Records = <<"Success", "Other">>
    /\ IsHealthy

\* ------------------------------------------------------------------ more properties of the threads

\* C23: the failure count never decreases and never exceeds the allowed
\* total plus the number of workers: a worker enters its body only from a
\* check that saw the count within the allowed total, and adds one failure
\* per entry at most.
C23_CountBounded ==
    /\ [](failure_count <= allowed_total_failures + Cardinality(Workers))
    /\ [][failure_count' >= failure_count]_vars

C23_Witness ==
    /\ failure_count = allowed_total_failures + Cardinality(Workers)
    /\ \A w \in Workers : panics[w] >= 1

\* The positions of a worker that has stopped or is stopping.
Stopping == {ShutGlow, ShutOff, BodyOk, EndedOk, EndedFatal}

\* C24: the running flag is false only after a Ctrl-C or with the failure
\* count above the allowed total; as long as the panics of all workers
\* together are within the allowed total and no Ctrl-C has come, the flag is
\* true and no worker stops.
C24_NoSpuriousShutdown ==
    /\ ~is_running_flag =>
          (ctrlc_received \/ failure_count > allowed_total_failures)
    /\ (TotalPanics <= allowed_total_failures /\ ~ctrlc_received) =>
          /\ is_running_flag
          /\ \A w \in Workers : pc[w] \notin Stopping

C24_Witness ==
    /\ ~is_running_flag
    /\ ~ctrlc_received
    /\ failure_count = allowed_total_failures + 1
    /\ \E w \in Workers : pc[w] = EndedOk /\ panics[w] = 0

====
